---- MODULE Spec2Model ----
(***************************************************************************)
(* A model of validate/body/sun_plot.py: the angle arithmetic (wrap_angle, *)
(* angle_delta), the approximate Sun position, and the comparison harness  *)
(* (run_tests, get_sun_approximate and its worker pool).                   *)
(*                                                                         *)
(* Angles are Python floats.  A float is modelled as a binary floating     *)
(* point number of Prec significant bits: an integer count of the quantum  *)
(* 2^-FracBits radians whose significant bits fit in Prec.  Every float    *)
(* operation rounds its exact result to the nearest such number, ties to   *)
(* even, as IEEE 754 does with 53 bits.                                    *)
(***************************************************************************)
EXTENDS Integers, Sequences, FiniteSets, TLC

\* Significant bits of the modelled float format (53 in the interpreter).
Prec == 5

\* Input angles range over [-MaxTurns, MaxTurns] full turns.
MaxTurns == 1

\* The quantum is 2^-FracBits radians.
FracBits == Prec + 1

Abs(x) == IF x < 0 THEN -x ELSE x

RECURSIVE Pow2(_)
Pow2(n) == IF n <= 0 THEN 1 ELSE 2 * Pow2(n - 1)

RECURSIVE BitLen(_)
BitLen(n) == IF n = 0 THEN 0 ELSE 1 + BitLen(n \div 2)

\* The spacing of the floats around magnitude n (one unit in the last place).
Ulp(n) == IF Abs(n) < Pow2(Prec) THEN 1 ELSE Pow2(BitLen(Abs(n)) - Prec)

\* Round a non-negative exact value to the nearest float, ties to even.
RoundMag(n) ==
    LET u == Ulp(n)
        q == n \div u
        r == n % u
    IN  IF 2 * r < u THEN q * u
        ELSE IF 2 * r > u THEN (q + 1) * u
        ELSE IF q % 2 = 0 THEN q * u
        ELSE (q + 1) * u

RoundF(n) == IF n < 0 THEN -RoundMag(-n) ELSE RoundMag(n)

IsFloat(n) == RoundF(n) = n

\* Float addition and subtraction: the exact result, rounded.
fadd(x, y) == RoundF(x + y)
fsub(x, y) == RoundF(x - y)

\* math.pi: pi (here 205887 / 2^16) rounded to the float format.
pi == RoundF((205887 * Pow2(FracBits)) \div 65536)

\* 2 * math.pi: doubling a float is exact.
TwoPi == 2 * pi

\* C's fmod: the exact remainder, with the sign of the dividend (y > 0).
fmod(x, y) == IF x >= 0 THEN x % y ELSE -((-x) % y)

\* Python's float x % y for y > 0: fmod, then a non-zero remainder of the
\* wrong sign is moved into the divisor's sign by a (rounded) addition.
float_mod(x, y) ==
    LET m == fmod(x, y)
    IN  IF m /= 0 /\ m < 0 THEN fadd(m, y) ELSE m

wrap_angle(angle) == float_mod(angle, TwoPi)

\* A mutant of angle_delta: the half turn is not taken off again.
angle_delta_no_recentre(a0, b0) ==
    LET a1 == wrap_angle(a0)
        b1 == wrap_angle(b0)
    IN  float_mod(fadd(fsub(a1, b1), pi), TwoPi)

\* A mutant of angle_delta: the operands are subtracted the other way round.
angle_delta_swapped(a0, b0) ==
    LET a1 == wrap_angle(a0)
        b1 == wrap_angle(b0)
    IN  fsub(float_mod(fadd(fsub(b1, a1), pi), TwoPi), pi)

angle_delta(a0, b0) ==
    LET a1 == wrap_angle(a0)
        b1 == wrap_angle(b0)
    IN  fsub(float_mod(fadd(fsub(a1, b1), pi), TwoPi), pi)

\* The input angles: every float within MaxTurns turns of zero.
Angles == {n \in -(MaxTurns * TwoPi) .. (MaxTurns * TwoPi) : IsFloat(n)}

\* The distance of x from the nearest multiple of a full turn.
CircDist(x) ==
    LET m == x % TwoPi
    IN  IF m <= TwoPi - m THEN m ELSE TwoPi - m

(***************************************************************************)
(* Trigonometry.  The values of math.sin and math.cos are fixed-point      *)
(* numbers in units of 1/One, tabulated for whole degrees; the angle       *)
(* arguments and results of the trigonometric functions are carried in     *)
(* whole degrees (the code converts degrees to radians right before each   *)
(* call).                                                                  *)
(***************************************************************************)

\* The fixed-point unit: the value 1.0 of a sine, a cosine or a distance.
One == 10000

Sgn(x) == IF x > 0 THEN 1 ELSE IF x < 0 THEN -1 ELSE 0

\* n / d rounded to the nearest integer (d > 0), halves away from zero.
RoundDiv(n, d) ==
    IF n >= 0 THEN (2 * n + d) \div (2 * d) ELSE -((2 * (-n) + d) \div (2 * d))

\* The product of two fixed-point values.
fmul(x, y) == RoundDiv(x * y, One)

\* math.sin of 0 .. 90 degrees.
SinTable ==
    << 0, 175, 349, 523, 698, 872, 1045, 1219, 1392, 1564,
       1736, 1908, 2079, 2250, 2419, 2588, 2756, 2924, 3090, 3256,
       3420, 3584, 3746, 3907, 4067, 4226, 4384, 4540, 4695, 4848,
       5000, 5150, 5299, 5446, 5592, 5736, 5878, 6018, 6157, 6293,
       6428, 6561, 6691, 6820, 6947, 7071, 7193, 7314, 7431, 7547,
       7660, 7771, 7880, 7986, 8090, 8192, 8290, 8387, 8480, 8572,
       8660, 8746, 8829, 8910, 8988, 9063, 9135, 9205, 9272, 9336,
       9397, 9455, 9511, 9563, 9613, 9659, 9703, 9744, 9781, 9816,
       9848, 9877, 9903, 9925, 9945, 9962, 9976, 9986, 9994, 9998,
       10000 >>

\* math.sin of any whole number of degrees: the argument is reduced to one
\* turn, then to the first quadrant.
Sin(deg) ==
    LET r == deg % 360
    IN  IF r <= 90 THEN SinTable[r + 1]
        ELSE IF r <= 180 THEN SinTable[(180 - r) + 1]
        ELSE IF r <= 270 THEN -SinTable[(r - 180) + 1]
        ELSE -SinTable[(360 - r) + 1]

Cos(deg) == Sin(deg + 90)

\* How well the direction of t degrees matches the direction (xx, yy).
Dot(xx, yy, t) == xx * Cos(t) + yy * Sin(t)

\* The arctangent of yy / xx for yy > 0 and xx > 0, in whole degrees: the
\* direction nearest to (xx, yy).  The arctangent of a positive finite ratio
\* lies strictly between 0 and 90 degrees, and the float result keeps that
\* (its precision is relative), so the result stays within 1 .. 89.
RECURSIVE AtanScan(_, _, _)
AtanScan(yy, xx, t) ==
    IF t < 89 /\ Dot(xx, yy, t + 1) > Dot(xx, yy, t)
    THEN AtanScan(yy, xx, t + 1)
    ELSE t

atan(yy, xx) == AtanScan(yy, xx, 1)

\* A mutant of atan2: the single-argument arctangent of y / x, which cannot
\* tell (y, x) from (-y, -x).
atan_of_quotient(y, x) ==
    IF x = 0 THEN 90 * Sgn(y)
    ELSE IF y = 0 THEN 0
    ELSE Sgn(y) * Sgn(x) * atan(Abs(y), Abs(x))

\* math.atan2(y, x) in degrees, in (-180, 180]: the arctangent of |y / x|,
\* placed in the quadrant that the signs of y and x select.
atan2(y, x) ==
    IF x = 0 THEN 90 * Sgn(y)
    ELSE IF y = 0 THEN (IF x > 0 THEN 0 ELSE 180)
    ELSE IF x > 0 THEN Sgn(y) * atan(Abs(y), x)
    ELSE Sgn(y) * (180 - atan(Abs(y), -x))

\* The Sun's right ascension in the TETE frame, from the obliquity of the
\* ecliptic and the apparent ecliptic longitude.
right_ascension(e_deg, L_deg) ==
    atan2(fmul(Cos(e_deg), Sin(L_deg)), Cos(L_deg))

\* The obliquity goes up to MaxObliquity degrees, the longitude over
\* [-MaxLongitudeTurns, MaxLongitudeTurns] turns.
MaxObliquity == 89
MaxLongitudeTurns == 1

Obliquities == 0 .. MaxObliquity
Longitudes == -(360 * MaxLongitudeTurns) .. (360 * MaxLongitudeTurns)


(***************************************************************************)
(* approximate_sun_position and tete_to_gcrs.  Angles are in thousandths   *)
(* of a degree until a trigonometric function takes them, in whole degrees *)
(* from there on; distances and vector components are in units of 1/One    *)
(* astronomical units.                                                     *)
(***************************************************************************)

\* The Julian date of the epoch J2000.0.
J2000 == 2451545

\* The time points go up to MaxDays days either side of J2000.0.
MaxDays == 40

\* The precession-nutation matrices rotate by up to MaxRotation degrees.
MaxRotation == 2

JulianDates == (J2000 - MaxDays) .. (J2000 + MaxDays)

\* The sine and cosine of an angle given in thousandths of a degree.
SinM(mdeg) == Sin(RoundDiv(mdeg, 1000))
CosM(mdeg) == Cos(RoundDiv(mdeg, 1000))

\* D, the days from J2000.0.
DaysFromEpoch(JD) == JD - J2000

\* g, the mean anomaly of the Sun: 357.529 + 0.98560028 * D degrees.
mean_anomaly(D) == 357529 + 985 * D + RoundDiv(60028 * D, 100000)

\* q, the mean longitude of the Sun: 280.459 + 0.98564736 * D degrees.
mean_longitude(D) == 280459 + 985 * D + RoundDiv(64736 * D, 100000)

\* L, the apparent ecliptic longitude:
\* q + 1.915 * sin(g) + 0.020 * sin(2 * g) degrees.
ecliptic_longitude(D) ==
    LET g == mean_anomaly(D)
    IN  mean_longitude(D) + RoundDiv(1915 * SinM(g), One)
                          + RoundDiv(20 * SinM(2 * g), One)

\* R, the distance: 1.00014 - 0.01671 * cos(g) - 0.00014 * cos(2 * g) AU.
sun_distance(D) ==
    LET g == mean_anomaly(D)
    IN  RoundDiv(100014 - RoundDiv(1671 * CosM(g), One)
                        - RoundDiv(14 * CosM(2 * g), One), 10)

\* e, the mean obliquity of the ecliptic: 23.439 - 0.00000036 * D degrees.
obliquity(D) == 23439 - RoundDiv(36 * D, 100000)

\* sin_d, the argument of the arcsine: sin(e) * sin(L).
sin_declination(D) == fmul(SinM(obliquity(D)), SinM(ecliptic_longitude(D)))

\* math.asin raises ValueError ("math domain error") outside [-1, 1].
asin_domain_error(v) == Abs(v) > One

\* math.asin of a value in [-1, 1], in whole degrees: the angle of the
\* nearest tabulated sine.
RECURSIVE AsinScan(_, _)
AsinScan(v, t) ==
    IF t < 90 /\ Abs(SinTable[t + 2] - v) < Abs(SinTable[t + 1] - v)
    THEN AsinScan(v, t + 1)
    ELSE t

asin(v) == Sgn(v) * AsinScan(Abs(v), 0)

\* The position in the TETE frame (lines 278 to 287): right ascension and
\* declination in degrees, distance in 1/One AU.
tete_position(D) ==
    [ra  |-> right_ascension(RoundDiv(obliquity(D), 1000),
                             RoundDiv(ecliptic_longitude(D), 1000)),
     dec |-> asin(sin_declination(D)),
     r   |-> sun_distance(D)]

\* astropy's spherical_to_cartesian(r, lat, lon).
spherical_to_cartesian(r, lat, lon) ==
    << fmul(r, fmul(Cos(lat), Cos(lon))),
       fmul(r, fmul(Cos(lat), Sin(lon))),
       fmul(r, Sin(lat)) >>

\* The matrices the precession-nutation provider may return: rotations about
\* the pole by k degrees (the identity for k = 0), as rows of fixed-point
\* numbers.
RotationMatrix(k) ==
    << << Cos(k), Sin(k), 0 >>,
       << -Sin(k), Cos(k), 0 >>,
       << 0, 0, One >> >>

\* A row vector times a matrix: tete_cartesian @ rbpn.
VecMat(v, m) ==
    [j \in 1..3 |-> fmul(v[1], m[1][j]) + fmul(v[2], m[2][j]) + fmul(v[3], m[3][j])]

\* The integer square root, by bisection.
RECURSIVE SqrtSearch(_, _, _)
SqrtSearch(n, lo, hi) ==
    IF lo >= hi THEN lo
    ELSE LET mid == (lo + hi + 1) \div 2
         IN  IF mid * mid <= n THEN SqrtSearch(n, mid, hi)
             ELSE SqrtSearch(n, lo, mid - 1)

Sqrt(n) == SqrtSearch(n, 0, 4 * One)

\* astropy's cartesian_to_spherical: the distance, the latitude in
\* [-90, 90] and the longitude wrapped into [0, 360) degrees.
cartesian_to_spherical(v) ==
    [r   |-> Sqrt(v[1] * v[1] + v[2] * v[2] + v[3] * v[3]),
     dec |-> atan2(v[3], Sqrt(v[1] * v[1] + v[2] * v[2])),
     ra  |-> atan2(v[2], v[1]) % 360]

\* No position: the value of a result that was never returned.
NoPosition == [ra |-> 0, dec |-> 0, r |-> 0]

NoMatrix == << >>


(***************************************************************************)
(* The comparison harness: run_tests, get_sun_astropy, get_sun_approximate *)
(* and the worker pool of multiprocessing.  A position is known by the     *)
(* time point it was computed for and by who computed it.                  *)
(***************************************************************************)

\* Pool(processes=8).
processes == 8

\* num_time_points goes up to MaxPoints.
MaxPoints == 3

Workers == 1 .. processes

TestClasses ==
    {"WrapAngleTest", "AngleDeltaTest", "DegreesToRadiansTest",
     "RadiansToArcsecTest", "ArcsecToRadiansTest"}

\* A mutant of wasSuccessful: the failures are not looked at.
wasSuccessfulAlways(failed) == TRUE

\* unittest's TestResult.wasSuccessful().
wasSuccessful(failed) == failed = {}

\* The result of approximate_sun_position(t).
approximate_position(t) == [time |-> t, by |-> "approximate"]

\* The position astropy.coordinates.get_sun gives for t.
reference_position(t) == [time |-> t, by |-> "astropy"]

\* approximate - expected (SunPosition.__sub__).
position_delta(approximate, expected) ==
    [time |-> approximate.time, against |-> expected.time,
     minuend |-> approximate.by, subtrahend |-> expected.by]

\* The loop of get_sun_astropy: one position per time point, in order.
get_sun_astropy(time) == [i \in 1 .. Len(time) |-> reference_position(time[i])]

\* The sequential loop of get_sun_approximate (lines 305 to 308).
sequential_positions(time) ==
    [i \in 1 .. Len(time) |-> approximate_position(time[i])]

\* pool.map's chunk size for n items: n / (4 * processes), rounded up.
ChunkSize(n) ==
    IF n = 0 THEN 0
    ELSE IF n % (4 * processes) > 0 THEN n \div (4 * processes) + 1
    ELSE n \div (4 * processes)

\* The number of chunks, MapResult._number_left at the start.
NumChunks(n) ==
    IF ChunkSize(n) <= 0 THEN 0
    ELSE n \div ChunkSize(n) + (IF n % ChunkSize(n) > 0 THEN 1 ELSE 0)

\* The indices of the items of chunk c (chunks are numbered from 1).
ChunkItems(c, n) ==
    {j \in 1 .. n : (c - 1) * ChunkSize(n) < j /\ j <= c * ChunkSize(n)}

\* times[i]: the i-th of the evenly spaced time points, 0.1 day apart from
\* 1800-01-01T00:00:00 TT (Julian date 2378496.5), in tenths of a day.
time_point(i) == 23784965 + (i - 1)

\* An entry of MapResult._value that no result has been stored in.
Unset == [time |-> 0, by |-> "nobody"]

\* mapstar in a worker: the function applied to the items of chunk c in turn.
ChunkResult(time, c) ==
    LET n == Len(time)
        first == (c - 1) * ChunkSize(n)
    IN  [k \in 1 .. Cardinality(ChunkItems(c, n)) |->
            approximate_position(time[first + k])]

\* A mutant of StoreChunk: the results are stored in the order in which
\* they arrive, in the first entries that are still unset.
StoreChunkOnArrival(value, c, result) ==
    LET n == Len(value)
        free == {j \in 1 .. n : value[j] = Unset}
        first == CHOOSE j \in free : \A k \in free : j <= k
    IN  [j \in 1 .. n |->
            IF j >= first /\ j < first + Len(result)
            THEN result[j - first + 1]
            ELSE value[j]]

\* MapResult._set for a chunk that succeeded:
\* value[(c - 1) * chunksize : c * chunksize] = result.
StoreChunk(value, c, result) ==
    LET n == Len(value)
        first == (c - 1) * ChunkSize(n)
    IN  [j \in 1 .. n |->
            IF j \in ChunkItems(c, n) THEN result[j - first] ELSE value[j]]

VARIABLES
    a, b,           \* the two input angles
    apc,            \* "input", "wrapped", "delta"
    wrapped,        \* wrap_angle(a)
    rewrapped,      \* wrap_angle(wrap_angle(a))
    delta_ab,       \* angle_delta(a, b)
    delta_ba,       \* angle_delta(b, a)
    back,           \* wrap_angle(b + angle_delta(a, b))
    q_e, q_L,       \* right ascension: the obliquity and the longitude, degrees
    q_pc,           \* "input", "done"
    q_RA,           \* right ascension: the result, degrees
    s_JD,           \* approximate_sun_position: the time, a Julian date (TT)
    s_pc,           \* "start", "tete", "cartesian", "matrix", "returned", "raised"
    s_tete,         \* sun_tete
    s_cart,         \* tete_cartesian
    s_rbpn,         \* the matrix the provider returned
    s_calls,        \* how many times the provider was invoked
    s_fault,        \* the failure the provider raised, "none" if none
    s_exc,          \* the exception that reached the caller, "none" if none
    s_result,       \* the position returned to the caller
    h_pc,           \* run_tests: "idle", "unittest", "check", "exit", "reference",
                    \* "approximate", "prepare", "plot", "done", "crashed"
    h_failed,       \* the test classes that failed
    h_exit,         \* the exit code of the process, -1 while it runs
    h_times,        \* times
    h_expected,     \* sun_astropy
    h_approx,       \* sun_approximate
    h_errors,       \* approximate - expected, per time point
    h_plotted,      \* whether the plot was shown
    g_pc,           \* get_sun_approximate: "none", "map", "wait", "close",
                    \* "join", "returned", "raised"
    p_state,        \* the pool: "none", "run", "close", "joined"
    p_workers,      \* per worker: "none", "idle", "busy", "exited"
    p_running,      \* per worker: the chunk it runs, 0 if none
    p_taskq,        \* the chunks not yet taken by a worker, in order
    p_outq,         \* the results not yet handled, in order of completion
    p_value,        \* MapResult._value
    p_left,         \* MapResult._number_left
    p_success,      \* MapResult._success
    p_error,        \* the exception kept by MapResult, "none" if none
    p_order         \* the chunks in the order their results were handled

avars == <<a, b, apc, wrapped, rewrapped, delta_ab, delta_ba, back>>

qvars == <<q_e, q_L, q_pc, q_RA>>

svars == <<s_JD, s_pc, s_tete, s_cart, s_rbpn, s_calls, s_fault, s_exc, s_result>>

runvars == <<h_pc, h_failed, h_exit, h_times, h_expected, h_approx, h_errors,
             h_plotted>>

poolvars == <<p_state, p_workers, p_running, p_taskq, p_outq, p_value, p_left,
              p_success, p_error, p_order>>

hvars == <<runvars, g_pc, poolvars>>

\* wrap_angle applied to a, and again to its own result.
WrapAngleCall ==
    /\ apc = "input"
    /\ wrapped' = wrap_angle(a)
    /\ rewrapped' = wrap_angle(wrap_angle(a))
    /\ apc' = "wrapped"
    /\ UNCHANGED <<a, b, delta_ab, delta_ba, back>>
    /\ UNCHANGED <<qvars, svars, hvars>>

\* angle_delta applied to (a, b) and to (b, a), and b + delta wrapped.
AngleDeltaCall ==
    /\ apc = "wrapped"
    /\ delta_ab' = angle_delta(a, b)
    /\ delta_ba' = angle_delta(b, a)
    /\ back' = wrap_angle(fadd(b, angle_delta(a, b)))
    /\ apc' = "delta"
    /\ UNCHANGED <<a, b, wrapped, rewrapped>>
    /\ UNCHANGED <<qvars, svars, hvars>>

\* The right ascension of line 278 applied to the inputs.
RightAscensionCall ==
    /\ q_pc = "input"
    /\ q_RA' = right_ascension(q_e, q_L)
    /\ q_pc' = "done"
    /\ UNCHANGED <<q_e, q_L>>
    /\ UNCHANGED <<avars, svars, hvars>>

\* The failures the precession-nutation provider may raise.
ProviderFailures == {"ErfaError", "MemoryError"}

\* Lines 244 to 287: the position in the TETE frame; math.asin raises
\* ValueError when its argument is outside [-1, 1].
ComputeTete ==
    /\ s_pc = "start"
    /\ LET D == DaysFromEpoch(s_JD)
       IN  IF asin_domain_error(sin_declination(D))
           THEN /\ s_pc' = "raised"
                /\ s_exc' = "ValueError"
                /\ UNCHANGED s_tete
           ELSE /\ s_pc' = "tete"
                /\ s_tete' = tete_position(D)
                /\ UNCHANGED s_exc
    /\ UNCHANGED <<s_JD, s_cart, s_rbpn, s_calls, s_fault, s_result>>
    /\ UNCHANGED <<avars, qvars, hvars>>

\* Lines 218 to 220: tete_to_gcrs is entered and converts to cartesian.
ToCartesian ==
    /\ s_pc = "tete"
    /\ s_cart' = spherical_to_cartesian(s_tete.r, s_tete.dec, s_tete.ra)
    /\ s_pc' = "cartesian"
    /\ UNCHANGED <<s_JD, s_tete, s_rbpn, s_calls, s_fault, s_exc, s_result>>
    /\ UNCHANGED <<avars, qvars, hvars>>

\* Line 227: erfa.pnm06a returns the matrix of the time.
ProviderReturns ==
    /\ s_pc = "cartesian"
    /\ \E k \in -MaxRotation .. MaxRotation : s_rbpn' = RotationMatrix(k)
    /\ s_calls' = s_calls + 1
    /\ s_pc' = "matrix"
    /\ UNCHANGED <<s_JD, s_tete, s_cart, s_fault, s_exc, s_result>>
    /\ UNCHANGED <<avars, qvars, hvars>>

\* A mutant of ProviderFails: the failure is caught and a default position
\* is returned in its place.
ProviderFailsSuppressed ==
    /\ s_pc = "cartesian"
    /\ \E f \in ProviderFailures : s_fault' = f
    /\ s_calls' = s_calls + 1
    /\ s_pc' = "returned"
    /\ s_result' = [ra |-> 0, dec |-> 0, r |-> One]
    /\ UNCHANGED <<s_JD, s_tete, s_cart, s_rbpn, s_exc>>
    /\ UNCHANGED <<avars, qvars, hvars>>

\* Line 227: erfa.pnm06a raises.  Neither tete_to_gcrs nor
\* approximate_sun_position has a handler: the exception leaves both.
ProviderFails ==
    /\ s_pc = "cartesian"
    /\ \E f \in ProviderFailures : s_fault' = f /\ s_exc' = f
    /\ s_calls' = s_calls + 1
    /\ s_pc' = "raised"
    /\ UNCHANGED <<s_JD, s_tete, s_cart, s_rbpn, s_result>>
    /\ UNCHANGED <<avars, qvars, hvars>>

\* Lines 229 to 236 and 288 to 290: rotate, convert back, return.
RotateAndReturn ==
    /\ s_pc = "matrix"
    /\ s_result' = cartesian_to_spherical(VecMat(s_cart, s_rbpn))
    /\ s_pc' = "returned"
    /\ UNCHANGED <<s_JD, s_tete, s_cart, s_rbpn, s_calls, s_fault, s_exc>>
    /\ UNCHANGED <<avars, qvars, hvars>>

\* Line 318: unittest.main runs the test classes; any of them may fail.
RunUnitTests ==
    /\ h_pc = "unittest"
    /\ \E failed \in SUBSET TestClasses : h_failed' = failed
    /\ h_pc' = "check"
    /\ UNCHANGED <<h_exit, h_times, h_expected, h_approx, h_errors, h_plotted>>
    /\ UNCHANGED <<g_pc, poolvars>>
    /\ UNCHANGED <<avars, qvars, svars>>

\* Lines 319 and 320: sys.exit(1) when the tests were not successful.
ExitOnFailure ==
    /\ h_pc = "check"
    /\ ~wasSuccessful(h_failed)
    /\ h_exit' = 1
    /\ h_pc' = "exit"
    /\ UNCHANGED <<h_failed, h_times, h_expected, h_approx, h_errors, h_plotted>>
    /\ UNCHANGED <<g_pc, poolvars>>
    /\ UNCHANGED <<avars, qvars, svars>>

\* Lines 322 to 328: the evenly spaced time points.
BuildTimes ==
    /\ h_pc = "check"
    /\ wasSuccessful(h_failed)
    /\ \E n \in 1 .. MaxPoints : h_times' = [i \in 1 .. n |-> time_point(i)]
    /\ h_pc' = "reference"
    /\ UNCHANGED <<h_failed, h_exit, h_expected, h_approx, h_errors, h_plotted>>
    /\ UNCHANGED <<g_pc, poolvars>>
    /\ UNCHANGED <<avars, qvars, svars>>

\* Line 331: the reference positions.
ReferencePositions ==
    /\ h_pc = "reference"
    /\ h_expected' = get_sun_astropy(h_times)
    /\ h_pc' = "approximate"
    /\ UNCHANGED <<h_failed, h_exit, h_times, h_approx, h_errors, h_plotted>>
    /\ UNCHANGED <<g_pc, poolvars>>
    /\ UNCHANGED <<avars, qvars, svars>>

\* Line 299: get_sun_approximate is entered and creates the pool.
CreatePool ==
    /\ h_pc = "approximate"
    /\ g_pc = "none"
    /\ p_state' = "run"
    /\ p_workers' = [w \in Workers |-> "idle"]
    /\ g_pc' = "map"
    /\ UNCHANGED <<p_running, p_taskq, p_outq, p_value, p_left, p_success,
                   p_error, p_order>>
    /\ UNCHANGED runvars
    /\ UNCHANGED <<avars, qvars, svars>>

\* Line 300, pool.map: the input is cut into chunks, the chunks are queued
\* and a MapResult with one unset entry per item awaits them.
MapSubmit ==
    /\ g_pc = "map"
    /\ p_taskq' = [c \in 1 .. NumChunks(Len(h_times)) |-> c]
    /\ p_value' = [j \in 1 .. Len(h_times) |-> Unset]
    /\ p_left' = NumChunks(Len(h_times))
    /\ p_success' = TRUE
    /\ g_pc' = "wait"
    /\ UNCHANGED <<p_state, p_workers, p_running, p_outq, p_error, p_order>>
    /\ UNCHANGED runvars
    /\ UNCHANGED <<avars, qvars, svars>>

\* An idle worker takes the next chunk off the task queue.
WorkerTake(w) ==
    /\ p_state = "run"
    /\ p_workers[w] = "idle"
    /\ p_taskq /= << >>
    /\ p_running' = [p_running EXCEPT ![w] = Head(p_taskq)]
    /\ p_workers' = [p_workers EXCEPT ![w] = "busy"]
    /\ p_taskq' = Tail(p_taskq)
    /\ UNCHANGED <<p_state, p_outq, p_value, p_left, p_success, p_error, p_order>>
    /\ UNCHANGED <<runvars, g_pc>>
    /\ UNCHANGED <<avars, qvars, svars>>

\* A worker has applied approximate_sun_position to every item of its chunk
\* and sends the results.
WorkerSucceeds(w) ==
    /\ p_workers[w] = "busy"
    /\ p_outq' = Append(p_outq, [chunk |-> p_running[w], ok |-> TRUE,
                                 result |-> ChunkResult(h_times, p_running[w]),
                                 error |-> "none"])
    /\ p_workers' = [p_workers EXCEPT ![w] = "idle"]
    /\ p_running' = [p_running EXCEPT ![w] = 0]
    /\ UNCHANGED <<p_state, p_taskq, p_value, p_left, p_success, p_error, p_order>>
    /\ UNCHANGED <<runvars, g_pc>>
    /\ UNCHANGED <<avars, qvars, svars>>

\* approximate_sun_position raises in a worker, which sends the exception.
WorkerRaises(w) ==
    /\ p_workers[w] = "busy"
    /\ \E f \in ProviderFailures :
          p_outq' = Append(p_outq, [chunk |-> p_running[w], ok |-> FALSE,
                                    result |-> << >>, error |-> f])
    /\ p_workers' = [p_workers EXCEPT ![w] = "idle"]
    /\ p_running' = [p_running EXCEPT ![w] = 0]
    /\ UNCHANGED <<p_state, p_taskq, p_value, p_left, p_success, p_error, p_order>>
    /\ UNCHANGED <<runvars, g_pc>>
    /\ UNCHANGED <<avars, qvars, svars>>

\* The result handler takes the next result and calls MapResult._set: a
\* success is stored while no chunk has failed, the first failure is kept.
HandleResult ==
    /\ p_outq /= << >>
    /\ LET m == Head(p_outq)
       IN  /\ p_value' = IF m.ok /\ p_success
                         THEN StoreChunk(p_value, m.chunk, m.result)
                         ELSE p_value
           /\ p_success' = (p_success /\ m.ok)
           /\ p_error' = IF ~m.ok /\ p_success THEN m.error ELSE p_error
           /\ p_order' = Append(p_order, m.chunk)
    /\ p_left' = p_left - 1
    /\ p_outq' = Tail(p_outq)
    /\ UNCHANGED <<p_state, p_workers, p_running, p_taskq>>
    /\ UNCHANGED <<runvars, g_pc>>
    /\ UNCHANGED <<avars, qvars, svars>>

\* Line 300: every chunk is done and none failed; pool.map returns.
MapReturns ==
    /\ g_pc = "wait"
    /\ p_left = 0
    /\ p_success
    /\ g_pc' = "close"
    /\ UNCHANGED <<runvars, poolvars>>
    /\ UNCHANGED <<avars, qvars, svars>>

\* Line 300: every chunk is done and one failed; pool.map raises the kept
\* exception, which leaves get_sun_approximate and run_tests (no handler):
\* lines 301 to 303 are skipped and the interpreter ends with exit code 1.
MapRaises ==
    /\ g_pc = "wait"
    /\ p_left = 0
    /\ ~p_success
    /\ g_pc' = "raised"
    /\ h_pc' = "crashed"
    /\ h_exit' = 1
    /\ UNCHANGED <<h_failed, h_times, h_expected, h_approx, h_errors, h_plotted>>
    /\ UNCHANGED poolvars
    /\ UNCHANGED <<avars, qvars, svars>>

\* Line 301: pool.close().
PoolClose ==
    /\ g_pc = "close"
    /\ p_state' = "close"
    /\ g_pc' = "join"
    /\ UNCHANGED <<p_workers, p_running, p_taskq, p_outq, p_value, p_left,
                   p_success, p_error, p_order>>
    /\ UNCHANGED runvars
    /\ UNCHANGED <<avars, qvars, svars>>

\* A worker of a closed pool finds no more work and exits.
WorkerExits(w) ==
    /\ p_state = "close"
    /\ p_workers[w] = "idle"
    /\ p_taskq = << >>
    /\ p_workers' = [p_workers EXCEPT ![w] = "exited"]
    /\ UNCHANGED <<p_state, p_running, p_taskq, p_outq, p_value, p_left,
                   p_success, p_error, p_order>>
    /\ UNCHANGED <<runvars, g_pc>>
    /\ UNCHANGED <<avars, qvars, svars>>

\* Lines 302 and 303: pool.join() returns once every worker has exited, and
\* the result of pool.map is returned to run_tests (line 333).
PoolJoinAndReturn ==
    /\ g_pc = "join"
    /\ \A w \in Workers : p_workers[w] = "exited"
    /\ p_state' = "joined"
    /\ g_pc' = "returned"
    /\ h_approx' = p_value
    /\ h_pc' = "prepare"
    /\ UNCHANGED <<h_failed, h_exit, h_times, h_expected, h_errors, h_plotted>>
    /\ UNCHANGED <<p_workers, p_running, p_taskq, p_outq, p_value, p_left,
                   p_success, p_error, p_order>>
    /\ UNCHANGED <<avars, qvars, svars>>

Min(x, y) == IF x <= y THEN x ELSE y

\* Lines 336 to 346: zip pairs the i-th time point, the i-th reference
\* position and the i-th approximate position.
PrepareErrors ==
    /\ h_pc = "prepare"
    /\ h_errors' =
          [i \in 1 .. Min(Len(h_times), Min(Len(h_expected), Len(h_approx))) |->
              position_delta(h_approx[i], h_expected[i])]
    /\ h_pc' = "plot"
    /\ UNCHANGED <<h_failed, h_exit, h_times, h_expected, h_approx, h_plotted>>
    /\ UNCHANGED <<g_pc, poolvars>>
    /\ UNCHANGED <<avars, qvars, svars>>

\* Lines 348 to 352: the plot; run_tests returns and the process ends.
Plot ==
    /\ h_pc = "plot"
    /\ h_plotted' = TRUE
    /\ h_exit' = 0
    /\ h_pc' = "done"
    /\ UNCHANGED <<h_failed, h_times, h_expected, h_approx, h_errors>>
    /\ UNCHANGED <<g_pc, poolvars>>
    /\ UNCHANGED <<avars, qvars, svars>>

(***************************************************************************)
(* The specifications: one per part of the program, the other parts idle.  *)
(***************************************************************************)

vars == <<avars, qvars, svars, hvars>>

\* Every pair of input angles.
AngleInit ==
    /\ a \in Angles /\ b \in Angles /\ apc = "input"
    /\ wrapped = 0 /\ rewrapped = 0 /\ delta_ab = 0 /\ delta_ba = 0 /\ back = 0
    /\ q_e = 0 /\ q_L = 0 /\ q_pc = "idle" /\ q_RA = 0
    /\ s_JD = J2000 /\ s_pc = "idle"
    /\ s_tete = NoPosition /\ s_cart = <<0, 0, 0>> /\ s_rbpn = NoMatrix
    /\ s_calls = 0 /\ s_fault = "none" /\ s_exc = "none" /\ s_result = NoPosition
    /\ h_pc = "idle" /\ h_failed = {} /\ h_exit = -1
    /\ h_times = << >> /\ h_expected = << >> /\ h_approx = << >>
    /\ h_errors = << >> /\ h_plotted = FALSE /\ g_pc = "none"
    /\ p_state = "none" /\ p_workers = [w \in Workers |-> "none"]
    /\ p_running = [w \in Workers |-> 0]
    /\ p_taskq = << >> /\ p_outq = << >> /\ p_value = << >> /\ p_left = 0
    /\ p_success = TRUE /\ p_error = "none" /\ p_order = << >>

AngleNext ==
    \/ WrapAngleCall
    \/ AngleDeltaCall

\* wrap_angle and angle_delta applied to every pair of input angles.
SpecAngle == AngleInit /\ [][AngleNext]_vars

\* Every obliquity and longitude.
QuadrantInit ==
    /\ a = 0 /\ b = 0 /\ apc = "idle"
    /\ wrapped = 0 /\ rewrapped = 0 /\ delta_ab = 0 /\ delta_ba = 0 /\ back = 0
    /\ q_e \in Obliquities /\ q_L \in Longitudes /\ q_pc = "input" /\ q_RA = 0
    /\ s_JD = J2000 /\ s_pc = "idle"
    /\ s_tete = NoPosition /\ s_cart = <<0, 0, 0>> /\ s_rbpn = NoMatrix
    /\ s_calls = 0 /\ s_fault = "none" /\ s_exc = "none" /\ s_result = NoPosition
    /\ h_pc = "idle" /\ h_failed = {} /\ h_exit = -1
    /\ h_times = << >> /\ h_expected = << >> /\ h_approx = << >>
    /\ h_errors = << >> /\ h_plotted = FALSE /\ g_pc = "none"
    /\ p_state = "none" /\ p_workers = [w \in Workers |-> "none"]
    /\ p_running = [w \in Workers |-> 0]
    /\ p_taskq = << >> /\ p_outq = << >> /\ p_value = << >> /\ p_left = 0
    /\ p_success = TRUE /\ p_error = "none" /\ p_order = << >>

QuadrantNext == RightAscensionCall

\* The right ascension applied to every obliquity and longitude.
SpecQuadrant == QuadrantInit /\ [][QuadrantNext]_vars

\* Every time point.
SunInit ==
    /\ a = 0 /\ b = 0 /\ apc = "idle"
    /\ wrapped = 0 /\ rewrapped = 0 /\ delta_ab = 0 /\ delta_ba = 0 /\ back = 0
    /\ q_e = 0 /\ q_L = 0 /\ q_pc = "idle" /\ q_RA = 0
    /\ s_JD \in JulianDates /\ s_pc = "start"
    /\ s_tete = NoPosition /\ s_cart = <<0, 0, 0>> /\ s_rbpn = NoMatrix
    /\ s_calls = 0 /\ s_fault = "none" /\ s_exc = "none" /\ s_result = NoPosition
    /\ h_pc = "idle" /\ h_failed = {} /\ h_exit = -1
    /\ h_times = << >> /\ h_expected = << >> /\ h_approx = << >>
    /\ h_errors = << >> /\ h_plotted = FALSE /\ g_pc = "none"
    /\ p_state = "none" /\ p_workers = [w \in Workers |-> "none"]
    /\ p_running = [w \in Workers |-> 0]
    /\ p_taskq = << >> /\ p_outq = << >> /\ p_value = << >> /\ p_left = 0
    /\ p_success = TRUE /\ p_error = "none" /\ p_order = << >>

SunNext ==
    \/ ComputeTete
    \/ ToCartesian
    \/ ProviderReturns
    \/ ProviderFails
    \/ RotateAndReturn

\* One call of approximate_sun_position for every time point.
SpecSun == SunInit /\ [][SunNext]_vars

\* The program is started.
HarnessInit ==
    /\ a = 0 /\ b = 0 /\ apc = "idle"
    /\ wrapped = 0 /\ rewrapped = 0 /\ delta_ab = 0 /\ delta_ba = 0 /\ back = 0
    /\ q_e = 0 /\ q_L = 0 /\ q_pc = "idle" /\ q_RA = 0
    /\ s_JD = J2000 /\ s_pc = "idle"
    /\ s_tete = NoPosition /\ s_cart = <<0, 0, 0>> /\ s_rbpn = NoMatrix
    /\ s_calls = 0 /\ s_fault = "none" /\ s_exc = "none" /\ s_result = NoPosition
    /\ h_pc = "unittest" /\ h_failed = {} /\ h_exit = -1
    /\ h_times = << >> /\ h_expected = << >> /\ h_approx = << >>
    /\ h_errors = << >> /\ h_plotted = FALSE /\ g_pc = "none"
    /\ p_state = "none" /\ p_workers = [w \in Workers |-> "none"]
    /\ p_running = [w \in Workers |-> 0]
    /\ p_taskq = << >> /\ p_outq = << >> /\ p_value = << >> /\ p_left = 0
    /\ p_success = TRUE /\ p_error = "none" /\ p_order = << >>

HarnessNext ==
    \/ RunUnitTests
    \/ ExitOnFailure
    \/ BuildTimes
    \/ ReferencePositions
    \/ CreatePool
    \/ MapSubmit
    \/ \E w \in Workers : WorkerTake(w)
    \/ \E w \in Workers : WorkerSucceeds(w)
    \/ \E w \in Workers : WorkerRaises(w)
    \/ HandleResult
    \/ MapReturns
    \/ MapRaises
    \/ PoolClose
    \/ \E w \in Workers : WorkerExits(w)
    \/ PoolJoinAndReturn
    \/ PrepareErrors
    \/ Plot

\* One run of the program: run_tests from the unit tests to the plot.
SpecHarness == HarnessInit /\ [][HarnessNext]_vars

(***************************************************************************)
(* Claims about the angle arithmetic, checked under SpecAngle.             *)
(***************************************************************************)

\* C1: for every input angle x, wrap_angle(x) lies in the half-open range
\* [0, 2*pi), is congruent to x modulo 2*pi (here: to within one unit in the
\* last place of 2*pi), and wrap_angle(wrap_angle(x)) = wrap_angle(x).
\* (The code breaks it: a negative angle smaller than half an ulp of 2*pi is
\* wrapped to 2*pi itself, which wraps again to 0.)
C1_WrapAngleHalfOpenIdempotent ==
    apc /= "input" =>
        /\ 0 <= wrapped
        /\ wrapped < TwoPi
        /\ CircDist(wrapped - a) <= Ulp(TwoPi)
        /\ rewrapped = wrapped

\* C2 as stated: angle_delta(a, b) is in [-pi, pi] and
\* wrap_angle(b + angle_delta(a, b)) = wrap_angle(a), exactly.
C2_AngleDeltaExactlyCongruent ==
    apc = "delta" =>
        /\ -pi <= delta_ab
        /\ delta_ab <= pi
        /\ back = wrapped

\* C2 as amended: angle_delta(a, b) is in [-pi, pi], and
\* wrap_angle(b + angle_delta(a, b)) agrees with wrap_angle(a) modulo a full
\* turn to within the rounding of the float operations involved: two units in
\* the last place of 2*pi plus one of |b| + pi.
C2_AngleDeltaCongruentUpToRounding ==
    apc = "delta" =>
        /\ -pi <= delta_ab
        /\ delta_ab <= pi
        /\ CircDist(back - wrapped) <= 2 * Ulp(TwoPi) + Ulp(Abs(b) + pi)

\* C2's case: angles that are not normalized, a non-zero difference, and a
\* round trip that does not reproduce wrap_angle(a) exactly.
C2_Witness ==
    /\ apc = "delta"
    /\ a < 0
    /\ b > TwoPi - pi
    /\ delta_ab < 0
    /\ back /= wrapped

\* C3 as stated: angle_delta(a, b) = -angle_delta(b, a) for all a and b,
\* also when they are exactly half a turn apart.
C3_AngleDeltaAntisymmetricExact ==
    apc = "delta" => delta_ab = -delta_ba

\* C3 as amended: angle_delta(a, b) and angle_delta(b, a) are opposite to
\* within one unit in the last place of 2*pi, except when a and b are half a
\* turn apart (to within that rounding), where both are -pi: exactly -pi in
\* both orders when wrap_angle(a) and wrap_angle(b) differ by exactly pi.
C3_AngleDeltaAntisymmetricButHalfTurn ==
    apc = "delta" =>
        /\ \/ Abs(delta_ab + delta_ba) <= Ulp(TwoPi)
           \/ /\ delta_ab <= -pi + Ulp(TwoPi)
              /\ delta_ba <= -pi + Ulp(TwoPi)
        /\ -pi <= delta_ab /\ delta_ab <= pi
        /\ -pi <= delta_ba /\ delta_ba <= pi
        /\ Abs(wrap_angle(a) - wrap_angle(b)) = pi =>
               delta_ab = -pi /\ delta_ba = -pi

\* C3's case: two angles exactly half a turn apart, both differences taken.
C3_Witness ==
    /\ apc = "delta"
    /\ wrap_angle(a) - wrap_angle(b) = pi
    /\ delta_ab = -pi
    /\ delta_ba = -pi

(***************************************************************************)
(* Claim about the right ascension, checked under SpecQuadrant.            *)
(***************************************************************************)

\* C7: for every longitude L and every obliquity e with cos(e) > 0, the
\* right ascension atan2(cos(e) * sin(L), cos(L)) is in the quadrant of L:
\* sin(RA) has the sign of sin(L) and cos(RA) has the sign of cos(L).
C7_RightAscensionInQuadrantOfLongitude ==
    (q_pc = "done" /\ Cos(q_e) > 0) =>
        /\ Sgn(Sin(q_RA)) = Sgn(Sin(q_L))
        /\ Sgn(Cos(q_RA)) = Sgn(Cos(q_L))

\* C7's case: a longitude in the third quadrant, where the arctangent of the
\* quotient alone would answer in the first, and a tilted ecliptic.
C7_Witness ==
    /\ q_pc = "done"
    /\ q_e > 0 /\ Cos(q_e) > 0
    /\ Sin(q_L) < 0 /\ Cos(q_L) < 0
    /\ Sin(q_RA) < 0 /\ Cos(q_RA) < 0
    /\ q_RA /= q_L - 360 /\ q_RA /= q_L

(***************************************************************************)
(* Claims about approximate_sun_position, checked under SpecSun.           *)
(***************************************************************************)

\* C5: the provider of the precession-nutation matrix is invoked at most once
\* per call; if it fails, the call ends by raising that very failure, and no
\* position is returned; a position is returned only if it did not fail.
C5_ProviderFailurePropagatesUnchanged ==
    /\ s_calls <= 1
    /\ s_fault /= "none" =>
           /\ s_pc = "raised"
           /\ s_exc = s_fault
           /\ s_result = NoPosition
           /\ s_calls = 1
    /\ s_pc = "returned" => (s_fault = "none" /\ s_exc = "none")
    /\ s_pc = "raised" => s_exc = s_fault

\* C5's case: the provider was invoked and failed, and the call has ended.
C5_Witness ==
    /\ s_pc = "raised"
    /\ s_calls = 1
    /\ s_fault \in ProviderFailures
    /\ s_exc = s_fault
    /\ s_tete /= NoPosition

(***************************************************************************)
(* Claims about the harness, checked under SpecHarness.                    *)
(***************************************************************************)

\* C4: when get_sun_approximate returns, it returns exactly one position per
\* time point, the i-th being approximate_sun_position(time[i]), whatever the
\* order in which the workers completed; that is the result of the
\* sequential loop, and the harness pairs each approximate position with the
\* reference position of the same time point.
C4_PoolMapKeepsInputOrder ==
    /\ g_pc = "returned" =>
           /\ Len(h_approx) = Len(h_times)
           /\ \A i \in 1 .. Len(h_times) :
                  h_approx[i] = approximate_position(h_times[i])
           /\ h_approx = sequential_positions(h_times)
    /\ h_pc \in {"plot", "done"} =>
           /\ Len(h_errors) = Len(h_times)
           /\ \A i \in 1 .. Len(h_times) :
                  /\ h_errors[i].time = h_times[i]
                  /\ h_errors[i].against = h_times[i]
                  /\ h_errors[i].minuend = "approximate"
                  /\ h_errors[i].subtrahend = "astropy"

\* C4's case: several time points, results handled in an order other than the
\* input's, and the call has returned.
C4_Witness ==
    /\ g_pc = "returned"
    /\ Len(h_times) >= 3
    /\ Len(p_order) = Len(h_times)
    /\ p_order[1] > p_order[2]
    /\ p_order[2] < p_order[3]

\* C9: if any unit test failed, the program exits with code 1 and none of the
\* comparison steps has run: no time points, no reference positions, no pool,
\* no plot; the comparison steps run only when every unit test succeeded.
C9_UnitTestFailureExitsBeforeComparison ==
    /\ h_failed /= {} =>
           /\ h_pc \in {"check", "exit"}
           /\ h_times = << >>
           /\ h_expected = << >>
           /\ h_approx = << >>
           /\ g_pc = "none"
           /\ p_state = "none"
           /\ \A w \in Workers : p_workers[w] = "none"
           /\ ~h_plotted
    /\ h_pc = "exit" => (h_exit = 1 /\ h_failed /= {})
    /\ h_pc \in {"reference", "approximate", "prepare", "plot", "done",
                 "crashed"} => h_failed = {}

\* C9's case: some unit test failed and the program has exited.
C9_Witness ==
    /\ h_pc = "exit"
    /\ h_exit = 1
    /\ h_failed /= {}
    /\ h_expected = << >>
    /\ p_state = "none"

\* C10: whenever get_sun_approximate has finished, by returning or by a
\* worker's failure raised out of pool.map, the pool is closed and joined and
\* every worker has exited.
\* (The code breaks it: the failure skips pool.close() and pool.join().)
C10_PoolClosedAndJoinedOnEveryPath ==
    g_pc \in {"returned", "raised"} =>
        /\ p_state = "joined"
        /\ \A w \in Workers : p_workers[w] = "exited"

====
